---- MODULE Spec2Model ----
(***************************************************************************)
(* dependency-cascade: the node model (src/types/node.rs) and the          *)
(* dependency graph engine (src/types/graph.rs).                           *)
(*                                                                         *)
(* A caller collects Node values into a Vec (commands.rs, prepare), hands  *)
(* the Vec to DependencyGraph::new and then queries the built graph.       *)
(*                                                                         *)
(* Representation.                                                         *)
(*   - A path or a glob pattern is the sequence of its components          *)
(*     ("test/a/src/f" is <<"test","a","src","f">>).                       *)
(*   - A petgraph NodeIndex i is the position i+1 in graph.nodes.          *)
(*   - graph.edges lists the edges in the order add_edge created them.     *)
(*   - Option<T> is None or Some(v).                                       *)
(***************************************************************************)
EXTENDS Integers, Sequences, FiniteSets, Bags, TLC

\* Bounds of the explored inputs.
MaxNodes == 3      \* nodes handed to DependencyGraph::new
MaxDeps  == 3      \* dependency entries over the whole node list
MaxPaths == 2      \* changed files handed to get_affected_nodes
MaxPatterns == 2   \* include patterns, and exclude patterns, of a node

NodeNames  == {"a", "b", "c"}
Undeclared == "zz"                       \* a name no node ever carries
QueryNames == NodeNames \cup {Undeclared}

VARIABLES
    nodes,            \* the Vec<Node> the caller has collected so far
    allow_cyclical,   \* the flag of the last DependencyGraph::new call
    pc,               \* "loading" | "built" | "failed" | "queried"
    result,           \* what DependencyGraph::new returned
    ret               \* the last query and what it returned

vars == <<nodes, allow_cyclical, pc, result, ret>>

None    == [some |-> FALSE]
Some(v) == [some |-> TRUE, value |-> v]

Range(s) == {s[i] : i \in 1..Len(s)}

NamesOf(seq) == [i \in 1..Len(seq) |-> seq[i].name]

NameSet(seq) == Range(NamesOf(seq))

RECURSIVE SeqsUpTo(_, _)
SeqsUpTo(S, n) ==
    IF n = 0 THEN {<<>>}
    ELSE LET shorter == SeqsUpTo(S, n - 1)
         IN shorter \cup {Append(s, x) : s \in {t \in shorter : Len(t) = n - 1}, x \in S}

RECURSIVE SumDeps(_)
SumDeps(ns) == IF ns = <<>> THEN 0 ELSE Len(ns[1].dependencies) + SumDeps(Tail(ns))

(***************************************************************************)
(* Paths and glob patterns (node.rs, includes_path).                       *)
(***************************************************************************)

\* PathBuf::join: an absolute right-hand side replaces the base.
PathJoin(base, pattern) ==
    IF pattern # <<>> /\ pattern[1] = "/" THEN pattern ELSE base \o pattern

\* glob::Pattern::new fails on an unclosed character class.
PatternNew(full_pattern) ==
    IF \E i \in 1..Len(full_pattern) : full_pattern[i] = "[invalid"
    THEN None
    ELSE Some(full_pattern)

\* glob::Pattern::matches_path with the default MatchOptions
\* (require_literal_separator = false): a "*" component runs over one or
\* more components, "**/" over zero or more, a trailing "**" over the rest.
RECURSIVE MatchesPath(_, _)
MatchesPath(p, path) ==
    IF p = <<>> THEN path = <<>>
    ELSE IF p[1] = "**" THEN
        IF Len(p) = 1 THEN Len(path) >= 1
        ELSE \E k \in 0..Len(path) : MatchesPath(Tail(p), SubSeq(path, k + 1, Len(path)))
    ELSE IF p[1] = "*" THEN
        \E k \in 1..Len(path) : MatchesPath(Tail(p), SubSeq(path, k + 1, Len(path)))
    ELSE path # <<>> /\ path[1] = p[1] /\ MatchesPath(Tail(p), Tail(path))

\* Faulty variant of PatternHit: a malformed pattern matches every path.
PatternHit_MalformedHits(base, pattern, path) ==
    LET p == PatternNew(PathJoin(base, pattern))
    IN IF p.some THEN MatchesPath(p.value, path) ELSE TRUE

\* One pattern of a node against a path; a malformed pattern is no match.
PatternHit(base, pattern, path) ==
    LET p == PatternNew(PathJoin(base, pattern))
    IN IF p.some THEN MatchesPath(p.value, path) ELSE FALSE

\* Faulty variant of includes_path: the exclude patterns are not joined onto
\* the node's base path.
includes_path_ExcludeUnjoined(node, path) ==
    LET matches_include ==
            \E i \in 1..Len(node.included_paths) :
                PatternHit(node.path, node.included_paths[i], path)
        matches_exclude ==
            \E i \in 1..Len(node.excluded_paths) :
                PatternHit(<<>>, node.excluded_paths[i], path)
    IN matches_include /\ ~matches_exclude

includes_path(node, path) ==
    LET matches_include ==
            \E i \in 1..Len(node.included_paths) :
                PatternHit(node.path, node.included_paths[i], path)
        matches_exclude ==
            \E i \in 1..Len(node.excluded_paths) :
                PatternHit(node.path, node.excluded_paths[i], path)
    IN matches_include /\ ~matches_exclude

(***************************************************************************)
(* Node::new and the node fixture of the graph tests.                      *)
(***************************************************************************)

\* Faulty variant of Node::new: the emptiness test looks at the exclude list.
NodeNew_ChecksExcluded(name, path, included_paths, excluded_paths, dependencies, metadata) ==
    IF excluded_paths = <<>>
    THEN [ok |-> FALSE, err |-> [kind |-> "NoIncludedPaths", name |-> name]]
    ELSE [ok |-> TRUE,
          node |-> [name |-> name, metadata |-> metadata, path |-> path,
                    included_paths |-> included_paths,
                    excluded_paths |-> excluded_paths,
                    dependencies |-> dependencies]]

NodeNew(name, path, included_paths, excluded_paths, dependencies, metadata) ==
    IF included_paths = <<>>
    THEN [ok |-> FALSE, err |-> [kind |-> "NoIncludedPaths", name |-> name]]
    ELSE [ok |-> TRUE,
          node |-> [name |-> name, metadata |-> metadata, path |-> path,
                    included_paths |-> included_paths,
                    excluded_paths |-> excluded_paths,
                    dependencies |-> dependencies]]

create_test_node(name, deps) ==
    NodeNew(name, <<"test", name>>, << <<"src", "**", "*">> >>,
            << <<"test", "**", "*">> >>, deps, None).node

(***************************************************************************)
(* The petgraph Graph<Node, (), Directed> behind DependencyGraph.          *)
(***************************************************************************)

EmptyGraph == [nodes |-> <<>>, edges |-> <<>>]

node_indices(graph) == 1..Len(graph.nodes)

\* Graph::add_edge appends to the edge list.
add_edge(graph, a, b) ==
    [graph EXCEPT !.edges = Append(@, [source |-> a, target |-> b])]

\* Graph::neighbors_directed: an edge is linked at the head of its end
\* points' adjacency lists, so the iterator yields the most recently added
\* edge first; parallel edges and self loops are yielded once per edge.
RECURSIVE NeighborsFrom(_, _, _, _)
NeighborsFrom(edges, k, idx, dir) ==
    IF k = 0 THEN <<>>
    ELSE LET e == edges[k]
             here  == IF dir = "Outgoing" THEN e.source ELSE e.target
             there == IF dir = "Outgoing" THEN e.target ELSE e.source
         IN (IF here = idx THEN <<there>> ELSE <<>>)
                \o NeighborsFrom(edges, k - 1, idx, dir)

neighbors_directed(graph, idx, dir) ==
    NeighborsFrom(graph.edges, Len(graph.edges), idx, dir)

\* The vertices reachable from the set `from` by one or more edges.
RECURSIVE ForwardClosure(_, _)
ForwardClosure(graph, from) ==
    LET next == from \cup {e.target : e \in {x \in Range(graph.edges) : x.source \in from}}
    IN IF next = from THEN from ELSE ForwardClosure(graph, next)

Successors(graph, v) == {e.target : e \in {x \in Range(graph.edges) : x.source = v}}

OnCycle(graph, v) == v \in ForwardClosure(graph, Successors(graph, v))

\* petgraph::algo::toposort: Ok when the graph has no directed cycle (a self
\* loop is one); otherwise Err(Cycle) whose node_id() is "a node id that
\* participates in the cycle". Which one is the library's choice, so every
\* vertex on a cycle is a possible outcome.
toposort(graph) ==
    LET blocked == {v \in node_indices(graph) : OnCycle(graph, v)}
    IN IF blocked = {} THEN {[ok |-> TRUE]}
       ELSE {[ok |-> FALSE, node_id |-> v] : v \in blocked}

(***************************************************************************)
(* DependencyGraph::new (graph.rs).                                        *)
(***************************************************************************)

\* Faulty variant of FirstPass: compares a name with the previous node's
\* name only, as a scan of a sorted list would.
RECURSIVE FirstPass_Adjacent(_, _, _)
FirstPass_Adjacent(ns, i, seen_names) ==
    IF i > Len(ns) THEN None
    ELSE IF i > 1 /\ ns[i].name = ns[i - 1].name THEN Some(ns[i].name)
    ELSE FirstPass_Adjacent(ns, i + 1, seen_names)

\* First pass: the first node whose name seen_names already holds.
RECURSIVE FirstPass(_, _, _)
FirstPass(ns, i, seen_names) ==
    IF i > Len(ns) THEN None
    ELSE IF ns[i].name \in seen_names THEN Some(ns[i].name)
    ELSE FirstPass(ns, i + 1, seen_names \cup {ns[i].name})

\* Second pass: every node becomes a vertex; a later insert of the same
\* key would replace the earlier index.
SecondPassGraph(ns) == [nodes |-> ns, edges |-> <<>>]

SecondPassIndex(ns) ==
    [n \in {ns[i].name : i \in 1..Len(ns)} |->
        CHOOSE i \in 1..Len(ns) :
            /\ ns[i].name = n
            /\ \A j \in 1..Len(ns) : ns[j].name = n => j <= i]

\* HashMap::get
MapGet(map, key) == IF key \in DOMAIN map THEN Some(map[key]) ELSE None

\* Faulty variant of AddEdges: edges are added while the vertices are being
\* inserted, so a dependency declared later in the list is not found yet.
RECURSIVE AddEdges_OnePass(_, _, _, _)
AddEdges_OnePass(graph, name_to_index, idx, k) ==
    IF idx > Len(graph.nodes) THEN [ok |-> TRUE, graph |-> graph]
    ELSE LET node == graph.nodes[idx]
             deps == node.dependencies
         IN IF k > Len(deps) THEN AddEdges_OnePass(graph, name_to_index, idx + 1, 1)
            ELSE IF deps[k] \in DOMAIN name_to_index /\ name_to_index[deps[k]] <= idx
                 THEN AddEdges_OnePass(add_edge(graph, name_to_index[deps[k]], idx),
                                       name_to_index, idx, k + 1)
                 ELSE [ok |-> FALSE,
                       err |-> [kind |-> "MissingDependency",
                                dep |-> deps[k],
                                node |-> node.name,
                                existing |-> DOMAIN name_to_index]]

\* Faulty variant of AddEdges: an unknown dependency is skipped (a warning),
\* not an error.
RECURSIVE AddEdges_Skip(_, _, _, _)
AddEdges_Skip(graph, name_to_index, idx, k) ==
    IF idx > Len(graph.nodes) THEN [ok |-> TRUE, graph |-> graph]
    ELSE LET node == graph.nodes[idx]
             deps == node.dependencies
         IN IF k > Len(deps) THEN AddEdges_Skip(graph, name_to_index, idx + 1, 1)
            ELSE IF deps[k] \in DOMAIN name_to_index
                 THEN AddEdges_Skip(add_edge(graph, name_to_index[deps[k]], idx),
                                    name_to_index, idx, k + 1)
                 ELSE AddEdges_Skip(graph, name_to_index, idx, k + 1)

\* The edge loops: vertex idx, then its k-th dependency name. Stops at the
\* first name the index does not hold. The third payload component of
\* MissingDependency is the join of name_to_index.keys() in the map's
\* unspecified iteration order; it is kept as the set of those keys.
RECURSIVE AddEdges(_, _, _, _)
AddEdges(graph, name_to_index, idx, k) ==
    IF idx > Len(graph.nodes) THEN [ok |-> TRUE, graph |-> graph]
    ELSE LET node == graph.nodes[idx]
             deps == node.dependencies
         IN IF k > Len(deps) THEN AddEdges(graph, name_to_index, idx + 1, 1)
            ELSE LET dep_idx == MapGet(name_to_index, deps[k])
                 IN IF dep_idx.some
                    THEN AddEdges(add_edge(graph, dep_idx.value, idx),
                                  name_to_index, idx, k + 1)
                    ELSE [ok |-> FALSE,
                          err |-> [kind |-> "MissingDependency",
                                   dep |-> deps[k],
                                   node |-> node.name,
                                   existing |-> DOMAIN name_to_index]]

\* `while cycle_path[0] != current { cycle_path.remove(0) }`
RECURSIVE TrimTo(_, _)
TrimTo(cycle_path, current) ==
    IF cycle_path[1] # current THEN TrimTo(Tail(cycle_path), current) ELSE cycle_path

\* The 'outer loop: follow the first outgoing neighbour until a vertex
\* repeats or a vertex has no outgoing edge.
RECURSIVE CycleTrace(_, _, _, _)
CycleTrace(graph, current, visited, cycle_path) ==
    LET neighbors == neighbors_directed(graph, current, "Outgoing")
    IN IF neighbors = <<>> THEN cycle_path
       ELSE LET next == neighbors[1]
            IN IF next \in visited THEN TrimTo(cycle_path, next)
               ELSE CycleTrace(graph, next, visited \cup {next}, Append(cycle_path, next))

\* [str]::join: the items with the separator between neighbours.
RECURSIVE Join(_, _)
Join(items, sep) ==
    IF Len(items) <= 1 THEN items
    ELSE <<items[1], sep>> \o Join(Tail(items), sep)

CircularDependencyError(graph, node_id) ==
    LET cycle_path  == CycleTrace(graph, node_id, {node_id}, <<node_id>>)
        cycle_names == [i \in 1..Len(cycle_path) |-> graph.nodes[cycle_path[i]].name]
    IN [kind |-> "CircularDependency",
        path |-> Join(cycle_names, " -> "),
        first |-> cycle_names[1]]

\* Faulty variant of New: the cycle check runs whatever allow_cyclical says.
New_AlwaysCheck(ns, allow, sorted) ==
    LET dup == FirstPass(ns, 1, {})
    IN IF dup.some
       THEN [kind |-> "Err", err |-> [kind |-> "DuplicateNodeName", name |-> dup.value]]
       ELSE LET name_to_index == SecondPassIndex(ns)
                added == AddEdges(SecondPassGraph(ns), name_to_index, 1, 1)
            IN IF ~added.ok THEN [kind |-> "Err", err |-> added.err]
               ELSE IF ~sorted.ok
               THEN [kind |-> "Err",
                     err |-> CircularDependencyError(added.graph, sorted.node_id)]
               ELSE [kind |-> "Ok", graph |-> added.graph,
                     name_to_index |-> name_to_index]

\* Faulty variant of New: the edges are added, and a missing dependency is
\* reported, before the names are checked for duplicates.
New_EdgesFirst(ns, allow, sorted) ==
    LET name_to_index == SecondPassIndex(ns)
        added == AddEdges(SecondPassGraph(ns), name_to_index, 1, 1)
        dup == FirstPass(ns, 1, {})
    IN IF ~added.ok THEN [kind |-> "Err", err |-> added.err]
       ELSE IF dup.some
       THEN [kind |-> "Err", err |-> [kind |-> "DuplicateNodeName", name |-> dup.value]]
       ELSE IF ~allow /\ ~sorted.ok
       THEN [kind |-> "Err",
             err |-> CircularDependencyError(added.graph, sorted.node_id)]
       ELSE [kind |-> "Ok", graph |-> added.graph,
             name_to_index |-> name_to_index]

\* DependencyGraph::new; sorted is the outcome of the toposort call.
New(ns, allow, sorted) ==
    LET dup == FirstPass(ns, 1, {})
    IN IF dup.some
       THEN [kind |-> "Err", err |-> [kind |-> "DuplicateNodeName", name |-> dup.value]]
       ELSE LET name_to_index == SecondPassIndex(ns)
                added == AddEdges(SecondPassGraph(ns), name_to_index, 1, 1)
            IN IF ~added.ok THEN [kind |-> "Err", err |-> added.err]
               ELSE IF ~allow /\ ~sorted.ok
               THEN [kind |-> "Err",
                     err |-> CircularDependencyError(added.graph, sorted.node_id)]
               ELSE [kind |-> "Ok", graph |-> added.graph,
                     name_to_index |-> name_to_index]

\* The graph new() would hand to toposort, if it gets that far.
EdgeGraph(ns) ==
    IF FirstPass(ns, 1, {}).some THEN EmptyGraph
    ELSE LET added == AddEdges(SecondPassGraph(ns), SecondPassIndex(ns), 1, 1)
         IN IF added.ok THEN added.graph ELSE EmptyGraph

(***************************************************************************)
(* Queries on a built DependencyGraph (graph.rs).                          *)
(***************************************************************************)

\* Faulty variant of VisitNeighbors: a new neighbour is recorded but not
\* pushed on the stack, so the walk stops after one level.
RECURSIVE VisitNeighbors_NoPush(_, _, _, _)
VisitNeighbors_NoPush(graph, neighbors, k, acc) ==
    IF k > Len(neighbors) THEN acc
    ELSE LET neighbor == neighbors[k]
         IN IF neighbor \in acc.visited
            THEN VisitNeighbors_NoPush(graph, neighbors, k + 1, acc)
            ELSE VisitNeighbors_NoPush(graph, neighbors, k + 1,
                    [visited |-> acc.visited \cup {neighbor},
                     results |-> Append(acc.results, graph.nodes[neighbor]),
                     stack   |-> acc.stack])

\* Faulty variant of VisitNeighbors: the visited test is made once per
\* distinct neighbor, so the second of two parallel edges reports its end
\* point again.
RECURSIVE VisitNeighbors_ParallelTwice(_, _, _, _)
VisitNeighbors_ParallelTwice(graph, neighbors, k, acc) ==
    IF k > Len(neighbors) THEN acc
    ELSE LET neighbor == neighbors[k]
         IN IF neighbor \in acc.visited
            THEN IF k > 1 /\ neighbors[k - 1] = neighbor
                 THEN VisitNeighbors_ParallelTwice(graph, neighbors, k + 1,
                        [acc EXCEPT !.results = Append(@, graph.nodes[neighbor])])
                 ELSE VisitNeighbors_ParallelTwice(graph, neighbors, k + 1, acc)
            ELSE VisitNeighbors_ParallelTwice(graph, neighbors, k + 1,
                    [visited |-> acc.visited \cup {neighbor},
                     results |-> Append(acc.results, graph.nodes[neighbor]),
                     stack   |-> Append(acc.stack, neighbor)])

\* The `for neighbor in neighbors_directed(..)` loop of one popped vertex.
RECURSIVE VisitNeighbors(_, _, _, _)
VisitNeighbors(graph, neighbors, k, acc) ==
    IF k > Len(neighbors) THEN acc
    ELSE LET neighbor == neighbors[k]
         IN IF neighbor \in acc.visited
            THEN VisitNeighbors(graph, neighbors, k + 1, acc)
            ELSE VisitNeighbors(graph, neighbors, k + 1,
                    [visited |-> acc.visited \cup {neighbor},
                     results |-> Append(acc.results, graph.nodes[neighbor]),
                     stack   |-> Append(acc.stack, neighbor)])

\* The `while let Some(idx) = stack.pop()` loop.
RECURSIVE Traverse(_, _, _)
Traverse(graph, dir, acc) ==
    IF acc.stack = <<>> THEN acc.results
    ELSE LET idx    == acc.stack[Len(acc.stack)]
             popped == [acc EXCEPT !.stack = SubSeq(@, 1, Len(@) - 1)]
         IN Traverse(graph, dir,
                VisitNeighbors(graph, neighbors_directed(graph, idx, dir), 1, popped))

\* Faulty variant of WalkIteration: the vertex is read off the top of the
\* stack and left there.
WalkIteration_NoPop(graph, dir, acc) ==
    LET idx == acc.stack[Len(acc.stack)]
    IN VisitNeighbors(graph, neighbors_directed(graph, idx, dir), 1, acc)

\* One iteration of the `while let Some(idx) = stack.pop()` loop.
WalkIteration(graph, dir, acc) ==
    LET idx    == acc.stack[Len(acc.stack)]
        popped == [acc EXCEPT !.stack = SubSeq(@, 1, Len(@) - 1)]
    IN VisitNeighbors(graph, neighbors_directed(graph, idx, dir), 1, popped)

\* Faulty variant of get_dependencies: walks the outgoing edges.
get_dependencies_Outgoing(dg, node_name) ==
    LET start_idx == MapGet(dg.name_to_index, node_name)
    IN IF start_idx.some
       THEN Traverse(dg.graph, "Outgoing",
                [visited |-> {}, results |-> <<>>, stack |-> <<start_idx.value>>])
       ELSE <<>>

\* Faulty variant of get_dependents: the start vertex counts as visited.
get_dependents_StartVisited(dg, node_name) ==
    LET start_idx == MapGet(dg.name_to_index, node_name)
    IN IF start_idx.some
       THEN Traverse(dg.graph, "Outgoing",
                [visited |-> {start_idx.value}, results |-> <<>>,
                 stack |-> <<start_idx.value>>])
       ELSE <<>>

\* Faulty variant of get_dependencies: the start vertex counts as visited.
get_dependencies_StartVisited(dg, node_name) ==
    LET start_idx == MapGet(dg.name_to_index, node_name)
    IN IF start_idx.some
       THEN Traverse(dg.graph, "Incoming",
                [visited |-> {start_idx.value}, results |-> <<>>,
                 stack |-> <<start_idx.value>>])
       ELSE <<>>

get_dependencies(dg, node_name) ==
    LET start_idx == MapGet(dg.name_to_index, node_name)
    IN IF start_idx.some
       THEN Traverse(dg.graph, "Incoming",
                [visited |-> {}, results |-> <<>>, stack |-> <<start_idx.value>>])
       ELSE <<>>

\* Faulty variant of get_dependents: a name missing from the index is looked
\* up as the first vertex instead of ending the query.
get_dependents_UnknownIsFirst(dg, node_name) ==
    LET start_idx == MapGet(dg.name_to_index, node_name)
        first     == IF start_idx.some THEN {start_idx.value}
                     ELSE {idx \in node_indices(dg.graph) : idx = 1}
    IN IF first # {}
       THEN Traverse(dg.graph, "Outgoing",
                [visited |-> {}, results |-> <<>>,
                 stack |-> <<CHOOSE idx \in first : TRUE>>])
       ELSE <<>>

get_dependents(dg, node_name) ==
    LET start_idx == MapGet(dg.name_to_index, node_name)
    IN IF start_idx.some
       THEN Traverse(dg.graph, "Outgoing",
                [visited |-> {}, results |-> <<>>, stack |-> <<start_idx.value>>])
       ELSE <<>>

get_node(dg, node_name) ==
    LET idx == MapGet(dg.name_to_index, node_name)
    IN IF idx.some THEN Some(dg.graph.nodes[idx.value]) ELSE None

get_all_nodes(dg) == dg.graph.nodes

\* Faulty variant of OwnsAny: the loop is left after the first path whether
\* it matched or not.
RECURSIVE OwnsAny_FirstOnly(_, _, _)
OwnsAny_FirstOnly(node, changed_files, k) ==
    IF k > Len(changed_files) THEN FALSE
    ELSE includes_path(node, changed_files[k])

\* The inner `for path in changed_files` loop, left at the first match.
RECURSIVE OwnsAny(_, _, _)
OwnsAny(node, changed_files, k) ==
    IF k > Len(changed_files) THEN FALSE
    ELSE IF includes_path(node, changed_files[k]) THEN TRUE
    ELSE OwnsAny(node, changed_files, k + 1)

\* One iteration of `for node in nodes.iter()`.
AffectedIteration(dg, changed_files, i, affected_nodes) ==
    LET node == get_all_nodes(dg)[i]
    IN IF OwnsAny(node, changed_files, 1)
       THEN affected_nodes \cup {node.name}
                \cup {d.name : d \in Range(get_dependents(dg, node.name))}
       ELSE affected_nodes

\* Faulty variant of AffectedLoop: an owning node adds its dependents but
\* not itself.
RECURSIVE AffectedLoop_NoSelf(_, _, _, _)
AffectedLoop_NoSelf(dg, changed_files, i, affected_nodes) ==
    LET all == get_all_nodes(dg)
    IN IF i > Len(all) THEN affected_nodes
       ELSE LET node == all[i]
            IN IF OwnsAny(node, changed_files, 1)
               THEN AffectedLoop_NoSelf(dg, changed_files, i + 1,
                        affected_nodes
                            \cup {d.name : d \in Range(get_dependents(dg, node.name))})
               ELSE AffectedLoop_NoSelf(dg, changed_files, i + 1, affected_nodes)

\* The outer `for node in nodes.iter()` loop filling the HashSet.
RECURSIVE AffectedLoop(_, _, _, _)
AffectedLoop(dg, changed_files, i, affected_nodes) ==
    LET all == get_all_nodes(dg)
    IN IF i > Len(all) THEN affected_nodes
       ELSE LET node == all[i]
            IN IF OwnsAny(node, changed_files, 1)
               THEN AffectedLoop(dg, changed_files, i + 1,
                        affected_nodes \cup {node.name}
                            \cup {d.name : d \in Range(get_dependents(dg, node.name))})
               ELSE AffectedLoop(dg, changed_files, i + 1, affected_nodes)

\* `affected_nodes.into_iter().collect()`: a Vec of the set's elements in
\* the HashSet's unspecified iteration order. The Vec is kept as the bag of
\* its items (how often each name occurs in it), which no order changes.
get_affected_nodes(dg, changed_files) ==
    SetToBag(AffectedLoop(dg, changed_files, 1, {}))

(***************************************************************************)
(* The caller: collect nodes, build, then query.                           *)
(***************************************************************************)

Init ==
    /\ nodes = <<>>
    /\ allow_cyclical = FALSE
    /\ pc = "loading"
    /\ result = [kind |-> "None"]
    /\ ret = [op |-> "none"]

\* nodes.push(node), with the node made the way the graph tests make it.
LoadNode ==
    /\ pc = "loading"
    /\ Len(nodes) < MaxNodes
    /\ \E name \in NodeNames, deps \in SeqsUpTo(NodeNames, MaxDeps - SumDeps(nodes)) :
          nodes' = Append(nodes, create_test_node(name, deps))
    /\ UNCHANGED <<allow_cyclical, pc, result, ret>>

\* The same push by a caller that gives every node a name of its own, as a
\* caller does that goes on to query the graph.
LoadNamedNode ==
    /\ pc = "loading"
    /\ Len(nodes) < MaxNodes
    /\ \E name \in NodeNames \ {nodes[i].name : i \in 1..Len(nodes)},
          deps \in SeqsUpTo(NodeNames, MaxDeps - SumDeps(nodes)) :
          nodes' = Append(nodes, create_test_node(name, deps))
    /\ UNCHANGED <<allow_cyclical, pc, result, ret>>

Build ==
    /\ pc = "loading"
    /\ \E allow \in BOOLEAN, sorted \in toposort(EdgeGraph(nodes)) :
          /\ allow_cyclical' = allow
          /\ result' = New(nodes, allow, sorted)
          /\ pc' = IF result'.kind = "Ok" THEN "built" ELSE "failed"
    /\ UNCHANGED <<nodes, ret>>

\* A query reads the graph and leaves it as it is (&self), so a run asks one
\* query of the graph it built: a second one would see the same graph.

\* The changed files a caller may report.
Paths ==
    {<<"test", "a", "src", "f">>, <<"test", "b", "src", "f">>, <<"test", "other", "f">>}

GetNode ==
    /\ pc = "built"
    /\ \E n \in QueryNames :
          ret' = [op |-> "get_node", arg |-> n, out |-> get_node(result, n)]
    /\ pc' = "queried"
    /\ UNCHANGED <<nodes, allow_cyclical, result>>

GetDependencies ==
    /\ pc = "built"
    /\ \E n \in QueryNames :
          ret' = [op |-> "get_dependencies", arg |-> n, out |-> get_dependencies(result, n)]
    /\ pc' = "queried"
    /\ UNCHANGED <<nodes, allow_cyclical, result>>

GetDependents ==
    /\ pc = "built"
    /\ \E n \in QueryNames :
          ret' = [op |-> "get_dependents", arg |-> n, out |-> get_dependents(result, n)]
    /\ pc' = "queried"
    /\ UNCHANGED <<nodes, allow_cyclical, result>>

GetAffectedNodes ==
    /\ pc = "built"
    /\ \E changed_files \in SeqsUpTo(Paths, MaxPaths) :
          ret' = [op |-> "get_affected_nodes", arg |-> changed_files,
                  out |-> get_affected_nodes(result, changed_files)]
    /\ pc' = "queried"
    /\ UNCHANGED <<nodes, allow_cyclical, result>>

\* Building a graph from any node list, and the name queries on it.
Next ==
    \/ LoadNode
    \/ Build
    \/ GetNode
    \/ GetDependencies
    \/ GetDependents

Spec == Init /\ [][Next]_vars

\* Building a graph from uniquely named nodes, and the impact query on it.
NextAffected ==
    \/ LoadNamedNode
    \/ Build
    \/ GetAffectedNodes

SpecAffected == Init /\ [][NextAffected]_vars

\* The base path, the patterns and the candidate paths of the includes_path
\* tests, with an absolute pattern and the paths that tell the cases apart.
NodeBase == <<"test">>

Patterns ==
    { <<"src", "**">>, <<"src", "excluded", "**">>, <<"[invalid">>,
      <<"/", "abs", "**">> }

NodePaths ==
    { <<"test", "src", "f">>, <<"test", "src", "excluded", "f">>,
      <<"test", "other", "f">>, <<"src", "excluded", "f">>, <<"/", "abs", "f">> }

\* The dependencies and metadata handed to Node::new.
NodeExtras ==
    { [dependencies |-> <<>>, metadata |-> None],
      [dependencies |-> <<"dep1">>, metadata |-> Some("{key: value}")] }

\* A caller constructs one node with Node::new and keeps it when Ok.
CreateNode ==
    /\ pc = "loading" /\ nodes = <<>> /\ ret.op = "none"
    /\ \E name \in NodeNames, extras \in NodeExtras,
          included_paths \in SeqsUpTo(Patterns, MaxPatterns),
          excluded_paths \in SeqsUpTo(Patterns, MaxPatterns) :
          LET out == NodeNew(name, NodeBase, included_paths, excluded_paths,
                             extras.dependencies, extras.metadata)
          IN /\ ret' = [op |-> "Node::new",
                        arg |-> [name |-> name, path |-> NodeBase,
                                 included_paths |-> included_paths,
                                 excluded_paths |-> excluded_paths,
                                 dependencies |-> extras.dependencies,
                                 metadata |-> extras.metadata],
                        out |-> out]
             /\ nodes' = IF out.ok THEN <<out.node>> ELSE <<>>
             /\ pc' = IF out.ok THEN "loading" ELSE "failed"
    /\ UNCHANGED <<allow_cyclical, result>>

\* node.includes_path(&path) on the node just constructed.
IncludesPath ==
    /\ pc = "loading" /\ Len(nodes) = 1 /\ ret.op = "Node::new"
    /\ \E path \in NodePaths :
          ret' = [op |-> "includes_path", arg |-> path,
                  out |-> includes_path(nodes[1], path)]
    /\ pc' = "queried"
    /\ UNCHANGED <<nodes, allow_cyclical, result>>

\* Constructing a node and asking it about a path.
NextNode ==
    \/ CreateNode
    \/ IncludesPath

SpecNode == Init /\ [][NextNode]_vars


(***************************************************************************)
(* The loops of graph.rs taken one iteration at a time: pc and ret hold    *)
(* the position and the locals of the call that is running.                *)
(***************************************************************************)

\* new() on a node list that passes the name and dependency checks and
\* fails the topological sort: the cycle trace starts at the reported vertex.
BeginTrace ==
    /\ pc = "loading"
    /\ \E sorted \in toposort(EdgeGraph(nodes)) :
          /\ ~sorted.ok
          /\ New(nodes, FALSE, sorted).kind = "Err"
          /\ New(nodes, FALSE, sorted).err.kind = "CircularDependency"
          /\ ret' = [op |-> "new", graph |-> EdgeGraph(nodes),
                     current |-> sorted.node_id,
                     visited |-> {sorted.node_id},
                     cycle_path |-> <<sorted.node_id>>]
    /\ allow_cyclical' = FALSE
    /\ pc' = "tracing"
    /\ UNCHANGED <<nodes, result>>

\* One iteration of the 'outer loop.
TraceStep ==
    /\ pc = "tracing"
    /\ LET neighbors == neighbors_directed(ret.graph, ret.current, "Outgoing")
       IN IF neighbors = <<>>
          THEN pc' = "traced" /\ ret' = ret
          ELSE LET next == neighbors[1]
               IN IF next \in ret.visited
                  THEN /\ pc' = "trimming"
                       /\ ret' = [ret EXCEPT !.current = next]
                  ELSE /\ pc' = "tracing"
                       /\ ret' = [ret EXCEPT !.current = next,
                                             !.visited = @ \cup {next},
                                             !.cycle_path = Append(@, next)]
    /\ UNCHANGED <<nodes, allow_cyclical, result>>

\* One iteration of `while cycle_path[0] != current`, then `break 'outer`.
TrimStep ==
    /\ pc = "trimming"
    /\ IF ret.cycle_path[1] # ret.current
       THEN pc' = "trimming" /\ ret' = [ret EXCEPT !.cycle_path = Tail(@)]
       ELSE pc' = "traced" /\ ret' = ret
    /\ UNCHANGED <<nodes, allow_cyclical, result>>

\* new() returns the CircularDependency error built from cycle_path.
TraceReturn ==
    /\ pc = "traced"
    /\ LET cycle_names ==
               [i \in 1..Len(ret.cycle_path) |-> ret.graph.nodes[ret.cycle_path[i]].name]
       IN result' = [kind |-> "Err",
                     err |-> [kind |-> "CircularDependency",
                              path |-> Join(cycle_names, " -> "),
                              first |-> cycle_names[1]]]
    /\ pc' = "failed"
    /\ ret' = [op |-> "none"]
    /\ UNCHANGED <<nodes, allow_cyclical>>

\* get_dependencies or get_dependents is called on a graph built with
\* allow_cyclical = true and looks the name up.
BeginWalk ==
    /\ pc = "built" /\ allow_cyclical
    /\ \E node_name \in QueryNames, op \in {"get_dependencies", "get_dependents"} :
          LET start_idx == MapGet(result.name_to_index, node_name)
          IN IF start_idx.some
             THEN /\ pc' = "walking"
                  /\ ret' = [op |-> op, arg |-> node_name,
                             dir |-> IF op = "get_dependents" THEN "Outgoing"
                                     ELSE "Incoming",
                             acc |-> [visited |-> {}, results |-> <<>>,
                                      stack |-> <<start_idx.value>>]]
             ELSE /\ pc' = "queried"
                  /\ ret' = [op |-> op, arg |-> node_name, out |-> <<>>]
    /\ UNCHANGED <<nodes, allow_cyclical, result>>

WalkStep ==
    /\ pc = "walking"
    /\ ret.acc.stack # <<>>
    /\ ret' = [ret EXCEPT !.acc = WalkIteration(result.graph, ret.dir, @)]
    /\ UNCHANGED <<nodes, allow_cyclical, pc, result>>

\* The stack is empty: the query returns results.
WalkReturn ==
    /\ pc = "walking"
    /\ ret.acc.stack = <<>>
    /\ ret' = [op |-> ret.op, arg |-> ret.arg, out |-> ret.acc.results]
    /\ pc' = "queried"
    /\ UNCHANGED <<nodes, allow_cyclical, result>>

\* get_affected_nodes is called on such a graph.
BeginAffected ==
    /\ pc = "built" /\ allow_cyclical
    /\ \E changed_files \in SeqsUpTo(Paths, MaxPaths) :
          ret' = [op |-> "get_affected_nodes", arg |-> changed_files,
                  i |-> 1, affected_nodes |-> {}]
    /\ pc' = "affecting"
    /\ UNCHANGED <<nodes, allow_cyclical, result>>

\* One iteration of `for node in nodes.iter()`.
AffectedStep ==
    /\ pc = "affecting"
    /\ ret.i <= Len(get_all_nodes(result))
    /\ ret' = [op |-> ret.op, arg |-> ret.arg, i |-> ret.i + 1,
               affected_nodes |->
                   AffectedIteration(result, ret.arg, ret.i, ret.affected_nodes)]
    /\ UNCHANGED <<nodes, allow_cyclical, pc, result>>

\* The node loop is done: the set is collected into the returned Vec.
AffectedReturn ==
    /\ pc = "affecting"
    /\ ret.i > Len(get_all_nodes(result))
    /\ ret' = [op |-> ret.op, arg |-> ret.arg, out |-> SetToBag(ret.affected_nodes)]
    /\ pc' = "queried"
    /\ UNCHANGED <<nodes, allow_cyclical, result>>

\* A step of a call that is running.
Running ==
    \/ TraceStep
    \/ TrimStep
    \/ TraceReturn
    \/ WalkStep
    \/ WalkReturn
    \/ AffectedStep
    \/ AffectedReturn

NextSteps ==
    \/ LoadNamedNode
    \/ Build
    \/ BeginTrace
    \/ BeginWalk
    \/ BeginAffected
    \/ Running

SpecSteps == Init /\ [][NextSteps]_vars

(***************************************************************************)
(* Properties. The vocabulary below is read off the caller's node list,    *)
(* not off the graph that new() builds from it.                            *)
(***************************************************************************)

\* The state new() returned in; a query changes neither nodes nor result.
Returned == pc \in {"built", "failed"}

Declared(ns) == {ns[i].name : i \in 1..Len(ns)}

DistinctNames(ns) ==
    \A i, j \in 1..Len(ns) : i # j => ns[i].name # ns[j].name

\* The positions whose name an earlier position carries.
Repeats(ns) == {i \in 1..Len(ns) : \E j \in 1..(i - 1) : ns[j].name = ns[i].name}

\* The references <<d, n>>: node n lists dependency d; an edge d -> n.
References(ns) ==
    UNION {{<<ns[i].dependencies[k], ns[i].name>> : k \in 1..Len(ns[i].dependencies)} :
              i \in 1..Len(ns)}

Resolvable(ns) == \A r \in References(ns) : r[1] \in Declared(ns)

Image(rel, S) == {r[2] : r \in {q \in rel : q[1] \in S}}

RECURSIVE Closure(_, _)
Closure(rel, S) ==
    LET next == S \cup Image(rel, S)
    IN IF next = S THEN S ELSE Closure(rel, next)

Inverse(rel) == {<<r[2], r[1]>> : r \in rel}

\* The names that transitively depend on n: one or more edges forward.
DownstreamOf(ns, n) == Closure(References(ns), Image(References(ns), {n}))

\* The names n transitively depends on: one or more edges backward.
UpstreamOf(ns, n) ==
    Closure(Inverse(References(ns)), Image(Inverse(References(ns)), {n}))

Cyclic(ns) == \E n \in Declared(ns) : n \in DownstreamOf(ns, n)

WellFormed(ns) == DistinctNames(ns) /\ Resolvable(ns)

NodeNamed(ns, n) == ns[CHOOSE i \in 1..Len(ns) : ns[i].name = n]


NoRepeats(seq) == \A i, j \in 1..Len(seq) : i # j => seq[i] # seq[j]

Failed(kind) == result.kind = "Err" /\ result.err.kind = kind

\* C1: a node list with pairwise distinct names, every dependency declared
\* and no dependency cycle is accepted by new(nodes, false); on the graph,
\* get_node returns the node of that name for a declared name and None for
\* any other name.
C1_BuildAndGetNode ==
    /\ (Returned /\ ~allow_cyclical /\ WellFormed(nodes) /\ ~Cyclic(nodes)) =>
          /\ result.kind = "Ok"
          /\ \A n \in QueryNames :
                get_node(result, n) =
                    IF n \in Declared(nodes) THEN Some(NodeNamed(nodes, n)) ELSE None
    /\ (pc = "queried" /\ ret.op = "get_node") =>
          ret.out = IF ret.arg \in Declared(nodes)
                    THEN Some(NodeNamed(nodes, ret.arg)) ELSE None

C1_Witness ==
    /\ pc = "queried" /\ ~allow_cyclical
    /\ Len(nodes) = 3 /\ SumDeps(nodes) = 3
    /\ nodes[1].dependencies # <<>>
    /\ ret.op = "get_node" /\ ret.arg = nodes[3].name
    /\ ret.out = Some(nodes[3])

\* C2: when some name occurs more than once in the node list, new fails
\* with DuplicateNodeName carrying the name at the first position that
\* repeats an earlier name, whatever allow_cyclical is; no graph is returned.
C2_DuplicateNodeName ==
    (Returned /\ Repeats(nodes) # {}) =>
        LET first == CHOOSE i \in Repeats(nodes) : \A j \in Repeats(nodes) : i <= j
        IN /\ pc = "failed"
           /\ result = [kind |-> "Err",
                        err |-> [kind |-> "DuplicateNodeName", name |-> nodes[first].name]]

C2_Witness ==
    /\ pc = "failed" /\ allow_cyclical
    /\ Failed("DuplicateNodeName")
    /\ Len(nodes) = 3
    /\ nodes[1].name = nodes[3].name /\ nodes[2].name # nodes[1].name
    /\ result.err.name = nodes[3].name

\* The undeclared references <<d, n>>: n lists d and no node is named d.
Dangling(ns) == {r \in References(ns) : r[1] \notin Declared(ns)}

VertexNamed(g, n) == CHOOSE v \in 1..Len(g.nodes) : g.nodes[v].name = n

\* C4: a node list with distinct names and declared dependencies that has a
\* dependency cycle (a node listing itself included) is refused by
\* new(nodes, false) with CircularDependency and accepted by
\* new(nodes, true); the graph then holds every declared node and an edge
\* D -> N for every dependency D of every node N.
C4_CycleCheck ==
    (Returned /\ WellFormed(nodes) /\ Cyclic(nodes)) =>
        IF allow_cyclical
        THEN /\ result.kind = "Ok"
             /\ result.graph.nodes = nodes
             /\ DOMAIN result.name_to_index = Declared(nodes)
             /\ \A r \in References(nodes) :
                   [source |-> VertexNamed(result.graph, r[1]),
                    target |-> VertexNamed(result.graph, r[2])]
                       \in Range(result.graph.edges)
        ELSE pc = "failed" /\ Failed("CircularDependency")

C4_Witness ==
    /\ pc = "built" /\ allow_cyclical
    /\ Len(nodes) = 3 /\ WellFormed(nodes)
    /\ \A n \in Declared(nodes) : DownstreamOf(nodes, n) = Declared(nodes)
    /\ Len(result.graph.edges) = 3

\* The names of a reported cycle path: every other item of the joined text.
PathNames(path) == [i \in 1..((Len(path) + 1) \div 2) |-> path[2 * i - 1]]

\* C5: a CircularDependency error reports a cycle of the graph: consecutive
\* names of the path are edges, the last name has an edge back to the first,
\* no name occurs twice, and the second component is the first name.
C5_WitnessCycle ==
    (Returned /\ Failed("CircularDependency")) =>
        LET p == PathNames(result.err.path)
        IN /\ \A i \in 1..(Len(p) - 1) : <<p[i], p[i + 1]>> \in References(nodes)
           /\ <<p[Len(p)], p[1]>> \in References(nodes)
           /\ NoRepeats(p)
           /\ result.err.first = p[1]

ExactlyOnce(out, names) ==
    /\ NoRepeats(NamesOf(out))
    /\ Range(NamesOf(out)) = names
    /\ \A i \in 1..Len(out) : out[i] = NodeNamed(nodes, out[i].name)

\* C7: on a built graph, get_dependents(n) for a declared n returns the
\* nodes reachable from n by one or more edges followed forward, each
\* exactly once.
C7_GetDependents ==
    (pc = "queried" /\ ret.op = "get_dependents" /\ ret.arg \in Declared(nodes)) =>
        ExactlyOnce(ret.out, DownstreamOf(nodes, ret.arg))

\* n is on a cycle with another node and reaches a third node twice over.
C7_Witness ==
    /\ pc = "queried" /\ ret.op = "get_dependents"
    /\ Len(nodes) = 3 /\ Len(result.graph.edges) = 3
    /\ ret.arg = nodes[1].name
    /\ nodes[1].dependencies = <<nodes[2].name>>
    /\ nodes[2].dependencies = <<nodes[1].name>>
    /\ nodes[3].dependencies = <<nodes[1].name>>
    /\ Len(ret.out) = 3

\* C8: on a built graph, get_dependencies(n) for a declared n returns the
\* nodes n transitively depends on (one or more edges followed backward),
\* each exactly once, also when several paths lead to a node.
C8_GetDependencies ==
    (pc = "queried" /\ ret.op = "get_dependencies" /\ ret.arg \in Declared(nodes)) =>
        ExactlyOnce(ret.out, UpstreamOf(nodes, ret.arg))

\* nodes[3] depends on nodes[1] directly and through nodes[2].
C8_Witness ==
    /\ pc = "queried" /\ ret.op = "get_dependencies"
    /\ Len(nodes) = 3 /\ ~Cyclic(nodes)
    /\ nodes[1].dependencies = <<>>
    /\ nodes[2].dependencies = <<nodes[1].name>>
    /\ nodes[3].dependencies = <<nodes[1].name, nodes[2].name>>
    /\ ret.arg = nodes[3].name
    /\ Len(ret.out) = 2

\* C9: on an acyclic built graph, B is in get_dependents(A) exactly when A is
\* in get_dependencies(B), for all nodes A and B.
C9_InverseRelations ==
    /\ (pc = "built" /\ ~Cyclic(nodes)) =>
          \A A, B \in Declared(nodes) :
              (B \in Range(NamesOf(get_dependents(result, A))))
                  <=> (A \in Range(NamesOf(get_dependencies(result, B))))
    /\ (pc = "queried" /\ ret.op = "get_dependents" /\ ~Cyclic(nodes)) =>
          \A B \in Declared(nodes) :
              (B \in Range(NamesOf(ret.out)))
                  <=> (ret.arg \in Range(NamesOf(get_dependencies(result, B))))
    /\ (pc = "queried" /\ ret.op = "get_dependencies" /\ ~Cyclic(nodes)) =>
          \A A \in Declared(nodes) :
              (A \in Range(NamesOf(ret.out)))
                  <=> (ret.arg \in Range(NamesOf(get_dependents(result, A))))

C9_Witness ==
    /\ pc = "queried" /\ ret.op = "get_dependents" /\ ~Cyclic(nodes)
    /\ Len(nodes) = 3
    /\ nodes[1].dependencies = <<nodes[3].name>>
    /\ nodes[2].dependencies = <<nodes[1].name>>
    /\ ret.arg = nodes[3].name
    /\ NamesOf(ret.out) = <<nodes[1].name, nodes[2].name>>
    /\ nodes[3].name \in Range(NamesOf(get_dependencies(result, nodes[2].name)))

\* The declared nodes that own one of the changed files.
Owners(ns, changed_files) ==
    {n \in Declared(ns) :
        \E k \in 1..Len(changed_files) : includes_path(NodeNamed(ns, n), changed_files[k])}

\* C10: get_affected_nodes returns, each name once, the owning nodes and
\* the names get_dependents returns for them; hence nothing when no node
\* owns a changed file.
C10_AffectedNodes ==
    (pc = "queried" /\ ret.op = "get_affected_nodes") =>
        /\ \A n \in BagToSet(ret.out) : CopiesIn(n, ret.out) = 1
        /\ BagToSet(ret.out) =
              UNION {{n} \cup Range(NamesOf(get_dependents(result, n))) :
                        n \in Owners(nodes, ret.arg)}

\* Two owners, one downstream of the other, and a third affected node.
C10_Witness ==
    /\ pc = "queried" /\ ret.op = "get_affected_nodes"
    /\ Len(nodes) = 3 /\ Len(ret.arg) = 2
    /\ Cardinality(Owners(nodes, ret.arg)) = 2
    /\ \E n \in Owners(nodes, ret.arg) :
          /\ DownstreamOf(nodes, n) \cap Owners(nodes, ret.arg) # {}
          /\ DownstreamOf(nodes, n) \ Owners(nodes, ret.arg) # {}
    /\ BagCardinality(ret.out) = 3

\* The names in the Vec get_affected_nodes returns for changed_files.
AffectedSet(changed_files) == BagToSet(get_affected_nodes(result, changed_files))

\* C11: the affected set of a list of changed files is the union of the
\* affected sets of its individual files.  The right-hand side depends only
\* on the set of files in the list, so the result is independent of their
\* order and repetition, and the result for P ++ Q is the union of the
\* results for P and for Q, although a node stops looking at the first file
\* it owns.
C11_AffectedUnion ==
    (pc = "queried" /\ ret.op = "get_affected_nodes") =>
        BagToSet(ret.out) = UNION {AffectedSet(<<p>>) : p \in Range(ret.arg)}

\* The first file is owned by no node, the second by a node with a
\* dependent: the early exit is not taken at the first file.
C11_Witness ==
    /\ pc = "queried" /\ ret.op = "get_affected_nodes"
    /\ Len(ret.arg) = 2
    /\ AffectedSet(<<ret.arg[1]>>) = {}
    /\ Cardinality(AffectedSet(<<ret.arg[2]>>)) >= 2
    /\ BagToSet(ret.out) = AffectedSet(<<ret.arg[2]>>)

\* C12: a query for a name that no node declares is answered, not refused:
\* get_dependencies and get_dependents return the empty sequence and
\* get_node returns None.
C12_UnknownName ==
    (pc = "queried" /\ ret.arg \notin Declared(nodes)) =>
        /\ ret.op \in {"get_dependencies", "get_dependents"} => ret.out = <<>>
        /\ ret.op = "get_node" => ret.out = None

\* get_dependents was asked for an undeclared name on a graph whose first
\* node has a dependent.
C12_Witness ==
    /\ pc = "queried" /\ ret.op = "get_dependents"
    /\ ret.arg \notin Declared(nodes)
    /\ ret.out = <<>>
    /\ Len(nodes) >= 2
    /\ DownstreamOf(nodes, nodes[1].name) # {}

\* A pattern of the node, resolved against the node's base path, matches.
Matches(node, pattern, path) ==
    LET full_pattern == PathJoin(node.path, pattern)
    IN PatternNew(full_pattern).some /\ MatchesPath(full_pattern, path)

\* C13: includes_path is true exactly when some include pattern, resolved
\* against the base path, matches the path and no exclude pattern, resolved
\* the same way, matches it; a matching exclude pattern always wins.
C13_IncludesPath ==
    (pc = "queried" /\ ret.op = "includes_path") =>
        LET node == nodes[1]
            included == \E p \in Range(node.included_paths) : Matches(node, p, ret.arg)
            excluded == \E p \in Range(node.excluded_paths) : Matches(node, p, ret.arg)
        IN /\ ret.out = (included /\ ~excluded)
           /\ excluded => ret.out = FALSE

\* A path under the base that an include pattern and an exclude pattern both
\* match, another include pattern being listed first.
C13_Witness ==
    /\ pc = "queried" /\ ret.op = "includes_path"
    /\ ret.arg = <<"test", "src", "excluded", "f">>
    /\ nodes[1].included_paths = << <<"/", "abs", "**">>, <<"src", "**">> >>
    /\ nodes[1].excluded_paths = << <<"src", "excluded", "**">> >>
    /\ ret.out = FALSE

\* The pattern, joined onto the node's base path, is rejected by glob.
Malformed(node, pattern) == ~PatternNew(PathJoin(node.path, pattern)).some

WellFormedOnly(node, patterns) ==
    SelectSeq(patterns, LAMBDA pattern : ~Malformed(node, pattern))

\* The node without its malformed include and exclude patterns.
WithoutMalformed(node) ==
    [node EXCEPT !.included_paths = WellFormedOnly(node, @),
                 !.excluded_paths = WellFormedOnly(node, @)]

\* The names get_affected_nodes returns for the graph of this one node.
AloneAffected(node, path) ==
    BagToSet(get_affected_nodes(New(<<node>>, FALSE, [ok |-> TRUE]), <<path>>))

\* C14: a malformed pattern does not make includes_path fail: the answer is
\* a boolean, and it is the answer of the same node without its malformed
\* patterns, so a malformed include matches nothing, a malformed exclude
\* excludes nothing and the well-formed patterns beside it still count.
\* get_affected_nodes on the graph of the node alone follows that answer.
C14_MalformedPattern ==
    (pc = "queried" /\ ret.op = "includes_path") =>
        LET node == nodes[1]
        IN /\ ret.out \in BOOLEAN
           /\ ret.out = includes_path(WithoutMalformed(node), ret.arg)
           /\ node.dependencies = <<>> =>
                AloneAffected(node, ret.arg) =
                    IF ret.out THEN {node.name} ELSE {}

\* A malformed include before a matching include and a malformed exclude:
\* the path is included, and the node is affected by it.
C14_Witness ==
    /\ pc = "queried" /\ ret.op = "includes_path"
    /\ nodes[1].included_paths = << <<"[invalid">>, <<"src", "**">> >>
    /\ nodes[1].excluded_paths = << <<"[invalid">> >>
    /\ nodes[1].dependencies = <<>>
    /\ ret.arg = <<"test", "src", "f">>
    /\ ret.out = TRUE
    /\ AloneAffected(nodes[1], ret.arg) = {nodes[1].name}

\* C15: Node::new fails, with NoIncludedPaths carrying the given name,
\* exactly when the include list is empty; otherwise the node it returns
\* holds the six arguments unchanged.
C15_NodeNew ==
    ret.op = "Node::new" =>
        /\ (ret.arg.included_paths = <<>>) <=> ~ret.out.ok
        /\ ~ret.out.ok =>
              ret.out.err = [kind |-> "NoIncludedPaths", name |-> ret.arg.name]
        /\ ret.out.ok =>
              /\ ret.out.node = ret.arg
              /\ nodes = <<ret.arg>>

\* Node::new refused a node that has exclude patterns, dependencies and
\* metadata but no include pattern.
C15_Witness ==
    /\ ret.op = "Node::new"
    /\ ret.arg.included_paths = <<>>
    /\ ret.arg.excluded_paths # <<>>
    /\ ret.arg.dependencies # <<>>
    /\ ret.arg.metadata.some
    /\ ~ret.out.ok
    /\ ret.out.err.name = ret.arg.name

\* One fixed enumeration of a finite set.
RECURSIVE SetToSeq(_)
SetToSeq(S) ==
    IF S = {} THEN <<>>
    ELSE LET x == CHOOSE y \in S : TRUE IN <<x>> \o SetToSeq(S \ {x})

\* The node list with every dependency list replaced by the enumeration of
\* its set: the same for all lists that differ by repetition and order.
DepsAsSets(ns) ==
    [i \in 1..Len(ns) |-> [ns[i] EXCEPT !.dependencies = SetToSeq(Range(@))]]

\* What new() returns for that list.
NewAsSets(ns) ==
    New(DepsAsSets(ns), allow_cyclical,
        CHOOSE sorted \in toposort(EdgeGraph(DepsAsSets(ns))) : TRUE)

\* C16: the dependency list of a node acts as a set.  Replacing every list
\* by one enumeration of its set changes neither whether new() succeeds nor
\* the names get_dependencies, get_dependents and get_affected_nodes return,
\* and no name is returned twice.
C16_DependencySet ==
    /\ Returned =>
         \A sorted \in toposort(EdgeGraph(DepsAsSets(nodes))) :
            New(DepsAsSets(nodes), allow_cyclical, sorted).kind = result.kind
    /\ pc = "built" =>
         \A path \in Paths :
            LET out == get_affected_nodes(result, <<path>>)
            IN /\ BagToSet(out) = BagToSet(get_affected_nodes(NewAsSets(nodes), <<path>>))
               /\ \A name \in BagToSet(out) : CopiesIn(name, out) = 1
    /\ (pc = "queried" /\ ret.op = "get_dependencies") =>
         /\ NameSet(ret.out) = NameSet(get_dependencies(NewAsSets(nodes), ret.arg))
         /\ NoRepeats(NamesOf(ret.out))
    /\ (pc = "queried" /\ ret.op = "get_dependents") =>
         /\ NameSet(ret.out) = NameSet(get_dependents(NewAsSets(nodes), ret.arg))
         /\ NoRepeats(NamesOf(ret.out))

\* A node lists the same dependency twice, after another one; the
\* dependents of the repeated name hold that node once.
C16_Witness ==
    /\ pc = "queried" /\ ret.op = "get_dependents"
    /\ \E i \in 1..Len(nodes) :
          /\ Len(nodes[i].dependencies) = 3
          /\ nodes[i].dependencies[2] = ret.arg
          /\ nodes[i].dependencies[3] = ret.arg
          /\ nodes[i].dependencies[1] # ret.arg
          /\ nodes[i].dependencies # DepsAsSets(nodes)[i].dependencies
          /\ nodes[i].name # ret.arg
          /\ NamesOf(ret.out) = <<nodes[i].name>>

\* How often the name occurs in a returned sequence of nodes.
Occurrences(out, name) == Cardinality({i \in 1..Len(out) : out[i].name = name})

\* C18: a node is listed among its own dependents, and among its own
\* dependencies, once if it lies on a directed cycle (a self loop included)
\* and not at all otherwise; on an acyclic graph no node is listed in its
\* own result, and a graph with a cycle was built with allow_cyclical.
C18_SelfMembership ==
    (/\ pc = "queried"
     /\ ret.op \in {"get_dependencies", "get_dependents"}
     /\ ret.arg \in Declared(nodes)) =>
        /\ Occurrences(ret.out, ret.arg) =
              IF ret.arg \in DownstreamOf(nodes, ret.arg) THEN 1 ELSE 0
        /\ ~Cyclic(nodes) => Occurrences(ret.out, ret.arg) = 0
        /\ Cyclic(nodes) => allow_cyclical

\* The cycle of three nodes: the dependents of a are a, b and c.
C18_Witness ==
    /\ pc = "queried" /\ ret.op = "get_dependents" /\ ret.arg = "a"
    /\ allow_cyclical
    /\ Len(nodes) = 3
    /\ References(nodes) = {<<"a", "b">>, <<"b", "c">>, <<"c", "a">>}
    /\ Len(ret.out) = 3
    /\ NameSet(ret.out) = {"a", "b", "c"}
    /\ Occurrences(ret.out, "a") = 1

\* A call of new() or of a query has been entered and has not returned.
InCall == pc \in {"tracing", "trimming", "traced", "walking", "affecting"}

\* The iterations a running call has left at most: a pop for every stacked
\* vertex and a pop and a push for every vertex not yet visited; a vertex of
\* the trace to visit or to trim; a node of the node loop.
Measure ==
    CASE pc = "walking" ->
            1 + Len(ret.acc.stack)
              + 2 * (Len(result.graph.nodes) - Cardinality(ret.acc.visited))
      [] pc = "affecting" -> 2 + Len(get_all_nodes(result)) - ret.i
      [] pc = "tracing" ->
            2 + 2 * Len(ret.graph.nodes) - Cardinality(ret.visited)
      [] pc = "trimming" -> 1 + Len(ret.cycle_path)
      [] pc = "traced" -> 1
      [] OTHER -> 0

\* An iteration, or the exit, of one of the `while` loops.
WhileStep == WalkStep \/ WalkReturn \/ TraceStep \/ TrimStep

\* C17: every call returns.  While get_dependencies, get_dependents or
\* get_affected_nodes runs on a graph built with allow_cyclical = true,
\* cycles and self loops included, or new() traces a cycle, every step of
\* the call lowers a natural number that is positive inside the call and
\* zero once the call has returned, and a `while` loop always has a step
\* that changes its state: no call can go on for ever.  The trace loop is
\* left at a vertex seen before or at a vertex without outgoing edge.
C17_Termination ==
    /\ [](InCall => (Measure \in Nat /\ Measure > 0))
    /\ [](pc \in {"walking", "tracing", "trimming"} => ENABLED <<WhileStep>>_vars)
    /\ [][InCall => (Measure' < Measure /\ (InCall' \/ pc' \in {"queried", "failed"}))]_vars
    /\ [][(pc = "tracing" /\ pc' # "tracing") =>
            \/ pc' = "trimming" /\ ret'.current \in ret.visited
            \/ pc' = "traced"
                 /\ neighbors_directed(ret.graph, ret.current, "Outgoing") = <<>>]_vars

\* get_dependents has returned from a graph in which a node with a self
\* loop lies on a second cycle.
C17_Witness ==
    /\ pc = "queried" /\ ret.op = "get_dependents"
    /\ allow_cyclical
    /\ \E n, m \in Declared(nodes) :
          /\ n # m
          /\ {<<n, n>>, <<n, m>>, <<m, n>>} \subseteq References(nodes)
          /\ ret.arg = n
          /\ NameSet(ret.out) = {n, m}

\* The calls taken step by step return what the calls taken whole return.
StepsAgree ==
    /\ (pc = "queried" /\ ret.op = "get_dependents") =>
            ret.out = get_dependents(result, ret.arg)
    /\ (pc = "queried" /\ ret.op = "get_dependencies") =>
            ret.out = get_dependencies(result, ret.arg)
    /\ (pc = "queried" /\ ret.op = "get_affected_nodes") =>
            ret.out = get_affected_nodes(result, ret.arg)
    /\ (pc = "failed" /\ Failed("CircularDependency")) =>
            \E sorted \in toposort(EdgeGraph(nodes)) :
                result = New(nodes, FALSE, sorted)

====
